---------------------------- MODULE Spec2Model ----------------------------
(***************************************************************************)
(* Model of the matrix-factorisation recommender (src/src/mf.py) and of    *)
(* the experiment loop that drives it (src/main.py).                       *)
(*                                                                         *)
(* Numbers.  The program computes in float64.  Here every real number is a *)
(* fixed-point integer counting units of 1/SCALE (1.0 is SCALE, 0.01 is    *)
(* SCALE \div 100); products and quotients are rounded down to a unit.     *)
(* A loss value can be NaN in the program (the mean of no numbers), so a   *)
(* loss is a record [nan, v].                                              *)
(*                                                                         *)
(* Arrays are sequences indexed from 1; user and item ids are 0-based as   *)
(* in the program, so row id of a matrix is element id + 1.                *)
(***************************************************************************)
EXTENDS Integers, Sequences, FiniteSets, Bags, TLC

VARIABLES
    \* ---- LogisticMatrixFactorization: hyperparameters (dataclass fields)
    seed, n_epochs, batch_size, lr, reg,
    \* ---- numpy's process-wide generator (np.random.seed / np.random.*)
    rng,
    \* ---- the arguments of fit / _get_batch_data
    train_X, train_y, train_pscores, val_X, val_y, val_pscores,
    \* ---- model parameters
    P, Q, b_u, b_i, b,
    \* ---- locals of fit
    batch_data, epoch, bidx, eidx, err, batch_loss, train_loss, val_loss,
    \* ---- where control is in the model class, and what fit returned
    pc, ret,
    \* ---- history: which instance is running (1, then 2), the trajectory
    \*      of each instance, the first instance's return value, and
    \*      P[user], Q[item] as they were when the current example started
    inst, traj, ret1, preP, preQ,
    \* ---- main(): loop position, locals, output tables, and history of the
    \*      calls it made
    mpc, run, train, val, test, model_params, model, logloss_df, metric_df,
    loaded, fit_call, eval_call, runs_done

hyperVars == <<seed, n_epochs, batch_size, lr, reg>>
dataVars  == <<train_X, train_y, train_pscores, val_X, val_y, val_pscores>>
paramVars == <<P, Q, b_u, b_i, b>>
loopVars  == <<batch_data, epoch, bidx, eidx, err, batch_loss, train_loss, val_loss>>
histVars  == <<inst, traj, ret1, preP, preQ>>
mainVars  == <<mpc, run, train, val, test, model_params, model, logloss_df,
               metric_df, loaded, fit_call, eval_call, runs_done>>
mfVars    == <<hyperVars, rng, dataVars, paramVars, loopVars, pc, ret, histVars>>
vars      == <<mfVars, mainVars>>

----------------------------------------------------------------------------
(* Bounds of the model *)

MaxLen == 4         \* longest input of _get_batch_data
MaxBatchSize == 4   \* largest batch_size
MaxSeed == 2        \* seeds 0 .. MaxSeed

----------------------------------------------------------------------------
(* Fixed-point arithmetic *)

SCALE == 10000

\* a * b, rounded down; split so that no intermediate product leaves 32 bits
Mul(a, c) ==
    (a \div SCALE) * c + (a % SCALE) * (c \div SCALE)
        + ((a % SCALE) * (c % SCALE)) \div SCALE

\* a / c, rounded down (c # 0)
Div(a, c) == IF c > 0 THEN (a * SCALE) \div c ELSE ((0 - a) * SCALE) \div (0 - c)

RECURSIVE SumSeq(_)
SumSeq(s) == IF s = <<>> THEN 0 ELSE Head(s) + SumSeq(Tail(s))

Range(s) == {s[k] : k \in DOMAIN s}

RECURSIVE IsqrtIn(_, _, _)
IsqrtIn(n, lo, hi) ==
    IF lo >= hi THEN lo
    ELSE LET mid == (lo + hi + 1) \div 2
         IN  IF mid * mid <= n THEN IsqrtIn(n, mid, hi) ELSE IsqrtIn(n, lo, mid - 1)

\* the square root of a fixed-point number (to 1/1000)
Sqrt(x) == IsqrtIn(x * 100, 0, 46340) * (SCALE \div 1000)

\* e^(-t) for t >= 0: halve the argument down to 1/8, then a cubic series
RECURSIVE ExpNeg(_)
ExpNeg(t) ==
    IF t > 20 * SCALE THEN 0
    ELSE IF t > SCALE \div 8 THEN LET h == ExpNeg(t \div 2) IN Mul(h, h)
    ELSE SCALE - t + Mul(t, t) \div 2 - Mul(Mul(t, t), t) \div 6

\* -ln(p) for 0 < p <= 1: double p up to 1/2, then the series of
\* 2 * atanh((1 - p) / (1 + p))
RECURSIVE NegLog(_)
NegLog(p) ==
    IF p < SCALE \div 2 THEN (6931 * SCALE) \div 10000 + NegLog(2 * p)
    ELSE LET z  == Div(SCALE - p, SCALE + p)
             z2 == Mul(z, z)
         IN  2 * (z + Mul(z2, z) \div 3 + Mul(Mul(z2, z2), z) \div 5)

\* vectors
VecAdd(x, y)   == [k \in DOMAIN x |-> x[k] + y[k]]
VecScale(c, x) == [k \in DOMAIN x |-> Mul(c, x[k])]
Dot(x, y)      == SumSeq([k \in DOMAIN x |-> Mul(x[k], y[k])])

\* np.mean of numbers (at least one)
MeanNum(s) == SumSeq(s) \div Len(s)

\* loss values: a number, or NaN
Num(x) == [nan |-> FALSE, v |-> x]
NaN    == [nan |-> TRUE, v |-> 0]

\* np.mean / np.std of a list of loss values: NaN when the list is empty
\* or holds a NaN
AnyNaN(s) == s = <<>> \/ \E k \in DOMAIN s : s[k].nan
LossMean(s) ==
    IF AnyNaN(s) THEN NaN ELSE Num(MeanNum([k \in DOMAIN s |-> s[k].v]))
LossStd(s) ==
    IF AnyNaN(s) THEN NaN
    ELSE LET m == MeanNum([k \in DOMAIN s |-> s[k].v])
         IN  Num(Sqrt(MeanNum([k \in DOMAIN s |-> Mul(s[k].v - m, s[k].v - m)])))

----------------------------------------------------------------------------
(* sklearn.utils.shuffle and np.array_split, as _get_batch_data uses them *)

\* One step of the generator behind a seeded RandomState (a full-period
\* linear congruential generator stands for numpy's Mersenne twister).
RngNext(s) == (s * 75 + 74) % 65537

\* RandomState(seed): the state a seed puts the generator in
SeedState(s) == s % 65537

Swap(s, i, j) == [s EXCEPT ![i] = s[j], ![j] = s[i]]

\* RandomState.shuffle: for i = n .. 2, swap x[i] with x[j], j drawn in 1 .. i
RECURSIVE FisherYates(_, _, _)
FisherYates(idx, i, s) ==
    IF i < 2 THEN idx
    ELSE LET s2 == RngNext(s)
             j  == 1 + (s2 % i)
         IN  FisherYates(Swap(idx, i, j), i - 1, s2)

\* the index permutation shuffle(..., random_state=sd) applies to arrays of
\* length n: one permutation, drawn from a generator seeded with sd
ShuffleIndices(sd, n) == FisherYates([k \in 1..n |-> k], n, SeedState(sd))

\* shuffle(a, random_state=sd): a indexed by the permutation
Shuffle(a, sd) == LET ix == ShuffleIndices(sd, Len(a))
                  IN  [k \in 1..Len(a) |-> a[ix[k]]]

\* faulty variant: the sections with an extra row are the last ones
SectionStartExtrasLast(n, k, j) ==
    LET each == n \div k
        extras == n % k
    IN  (j - 1) * each + (IF j - 1 > k - extras THEN j - 1 - (k - extras) ELSE 0)

\* np.array_split(a, k): k sections; the first Len(a) % k sections hold
\* Len(a) \div k + 1 rows, the others Len(a) \div k rows
SectionStart(n, k, j) ==
    LET each == n \div k
        extras == n % k
    IN  (j - 1) * each + (IF j - 1 < extras THEN j - 1 ELSE extras)

ArraySplit(a, k) ==
    [j \in 1..k |->
        SubSeq(a, SectionStart(Len(a), k, j) + 1, SectionStart(Len(a), k, j + 1))]

\* faulty variant: ceil(n / bs) sections
NumBatchesCeil(n, bs) == (n + bs - 1) \div bs

\* the number of sections _get_batch_data asks for
NumBatches(n, bs) == n \div bs + 1

\* faulty variant: the labels are shuffled by a call of their own, with a
\* generator in another state
GetBatchDataShuffledApart(X, y, ps, sd, bs) ==
    [X  |-> ArraySplit(Shuffle(X, sd), NumBatches(Len(X), bs)),
     y  |-> ArraySplit(Shuffle(y, sd + 1), NumBatches(Len(y), bs)),
     ps |-> ArraySplit(Shuffle(ps, sd), NumBatches(Len(ps), bs))]

\* _get_batch_data: shuffle the three arrays alike, split each
GetBatchData(X, y, ps, sd, bs) ==
    [X  |-> ArraySplit(Shuffle(X, sd), NumBatches(Len(X), bs)),
     y  |-> ArraySplit(Shuffle(y, sd), NumBatches(Len(y), bs)),
     ps |-> ArraySplit(Shuffle(ps, sd), NumBatches(Len(ps), bs))]


----------------------------------------------------------------------------
(* Input data *)

\* the records a split is built from: (feature row <<user, item>>, click,
\* propensity score)
Rows == { << <<0, 0>>, 1, SCALE \div 2 >>,
          << <<0, 1>>, 0, SCALE >>,
          << <<1, 0>>, 1, SCALE >>,
          << <<1, 1>>, 0, SCALE \div 4 >> }

\* every split of n records
Splits(n) == [1..n -> Rows]

ColX(d)  == [k \in 1..Len(d) |-> d[k][1]]
ColY(d)  == [k \in 1..Len(d) |-> d[k][2]]
ColPs(d) == [k \in 1..Len(d) |-> d[k][3]]

----------------------------------------------------------------------------
(* Values of the variables a specification does not use *)

IdleHyper == n_epochs = 0 /\ lr = 0 /\ reg = 0
IdleVal   == val_X = <<>> /\ val_y = <<>> /\ val_pscores = <<>>
IdleParam == P = <<>> /\ Q = <<>> /\ b_u = <<>> /\ b_i = <<>> /\ b = 0
IdleLoop  == /\ epoch = 0 /\ bidx = 0 /\ eidx = 0 /\ err = 0
             /\ batch_loss = <<>> /\ train_loss = <<>> /\ val_loss = <<>>
IdleHist  == /\ inst = 0 /\ traj = <<>> /\ ret1 = <<>>
             /\ preP = <<>> /\ preQ = <<>>
IdleMain  == /\ mpc = "idle" /\ run = 0 /\ train = <<>> /\ val = <<>>
             /\ test = <<>> /\ model_params = <<>> /\ model = "none"
             /\ logloss_df = {} /\ metric_df = {} /\ loaded = <<>>
             /\ fit_call = <<>> /\ eval_call = <<>> /\ runs_done = <<>>

----------------------------------------------------------------------------
(* _get_batch_data called on its own: any input of length 0 .. MaxLen *)

InitBatch ==
    /\ \E n \in 0..MaxLen : \E d \in Splits(n) :
          /\ train_X = ColX(d)
          /\ train_y = ColY(d)
          /\ train_pscores = ColPs(d)
    /\ seed \in 0..MaxSeed
    /\ batch_size \in 1..MaxBatchSize
    /\ batch_data = <<>>
    /\ pc = "gbd_call"
    /\ rng = 0 /\ ret = <<>>
    /\ IdleHyper /\ IdleVal /\ IdleParam /\ IdleLoop /\ IdleHist /\ IdleMain

CallGetBatchData ==
    /\ pc = "gbd_call"
    /\ batch_data' = GetBatchData(train_X, train_y, train_pscores, seed, batch_size)
    /\ pc' = "gbd_done"
    /\ UNCHANGED <<hyperVars, rng, dataVars, paramVars, epoch, bidx, eidx, err,
                   batch_loss, train_loss, val_loss, ret, histVars, mainVars>>

NextBatch == CallGetBatchData

SpecBatch == InitBatch /\ [][NextBatch]_vars


----------------------------------------------------------------------------
(* The model class: parameter store, prediction, gradients *)

NUsers == 2      \* n_users
NItems == 2      \* n_items
NFactors == 2    \* n_factors

\* alpha: float = 4.0
Alpha == 4 * SCALE

\* SGD.__call__(index): the row (or entry) of the wrapped array
SGDRead(params, index) == params[index + 1]

\* SGD.update(grad, index) on a matrix: params[index] -= lr * grad
SGDUpdateRow(params, rate, grad, index) ==
    [params EXCEPT ![index + 1] = VecAdd(@, VecScale(0 - rate, grad))]

\* SGD.update(grad, index) on a vector: params[index] -= lr * grad
SGDUpdateEntry(params, rate, grad, index) ==
    [params EXCEPT ![index + 1] = @ - Mul(rate, grad)]

\* _sigmoid, in the form that does not overflow for large |x|
Sigmoid(x) ==
    IF x >= 0 THEN Div(SCALE, SCALE + ExpNeg(x))
    ELSE Div(ExpNeg(0 - x), SCALE + ExpNeg(0 - x))

\* _predict_pair
PredictPair(Pm, Qm, bu, bi, bg, u, i) ==
    Sigmoid(Dot(SGDRead(Pm, u), SGDRead(Qm, i)) + SGDRead(bu, u) + SGDRead(bi, i) + bg)

\* predict: one probability per feature row
Predict(Pm, Qm, bu, bi, bg, X) ==
    [k \in 1..Len(X) |-> PredictPair(Pm, Qm, bu, bi, bg, X[k][1], X[k][2])]

\* probabilities are kept one unit away from 0 and 1 before the logarithm
ClipProb(q) == IF q < 1 THEN 1 ELSE IF q > SCALE - 1 THEN SCALE - 1 ELSE q

\* _cross_entropy_loss:
\*   mean((y / pscore) * -log(p) + (1 - y / pscore) * -log(1 - p))
CrossEntropyLoss(y_trues, y_scores, pscores) ==
    IF y_trues = <<>> THEN NaN
    ELSE Num(MeanNum([k \in 1..Len(y_trues) |->
            LET w == Div(y_trues[k] * SCALE, pscores[k])
                q == ClipProb(y_scores[k])
            IN  Mul(w, NegLog(q)) + Mul(SCALE - w, NegLog(SCALE - q))]))

\* faulty variant: the residual enters the gradient of P with the wrong sign
GradPPlusErr(Pm, Qm, rg, u, i, e) ==
    VecAdd(VecScale(e, SGDRead(Qm, i)), VecScale(rg, SGDRead(Pm, u)))

\* the gradients of _update_P, _update_Q, _update_b_u, _update_b_i
GradP(Pm, Qm, rg, u, i, e) ==
    VecAdd(VecScale(0 - e, SGDRead(Qm, i)), VecScale(rg, SGDRead(Pm, u)))
GradQ(Pm, Qm, rg, u, i, e) ==
    VecAdd(VecScale(0 - e, SGDRead(Pm, u)), VecScale(rg, SGDRead(Qm, i)))
GradBu(bu, rg, u, e) == (0 - e) + Mul(rg, SGDRead(bu, u))
GradBi(bi, rg, i, e) == (0 - e) + Mul(rg, SGDRead(bi, i))

\* _update_P .. _update_b_i: the array after the call
update_P(Pm, Qm, rate, rg, u, i, e) ==
    SGDUpdateRow(Pm, rate, GradP(Pm, Qm, rg, u, i, e), u)
\* faulty variant: _update_Q writes the row of the user id
update_Q_AtUser(Pm, Qm, rate, rg, u, i, e) ==
    SGDUpdateRow(Qm, rate, GradQ(Pm, Qm, rg, u, i, e), u)
update_Q(Pm, Qm, rate, rg, u, i, e) ==
    SGDUpdateRow(Qm, rate, GradQ(Pm, Qm, rg, u, i, e), i)
update_b_u(bu, rate, rg, u, e) ==
    SGDUpdateEntry(bu, rate, GradBu(bu, rg, u, e), u)
update_b_i(bi, rate, rg, i, e) ==
    SGDUpdateEntry(bi, rate, GradBi(bi, rg, i, e), i)

----------------------------------------------------------------------------
(* __post_init__: seed numpy's generator, draw P, Q, b_u, b_i in turn *)

\* the generator's state after j more draws
RECURSIVE RngAt(_, _)
RngAt(s, j) == IF j = 0 THEN s ELSE RngNext(RngAt(s, j - 1))

\* np.random.uniform(low, high): the draw a generator state yields
Uniform(s, low, high) == low + Mul(high - low, Div(s, 65537))

\* np.random.normal(scale=sc): the draw a generator state yields, through
\* the 10%, 30%, 50%, 70%, 90% points of the standard normal law
Normal(s, sc) ==
    Mul(sc, ((<<-12816, -5244, 0, 5244, 12816>>)[(s % 5) + 1] * SCALE) \div 10000)

\* limit = alpha * sqrt(6 / n_factors)
InitLimit == Mul(Alpha, Sqrt(Div(6 * SCALE, NFactors * SCALE)))

\* np.random.seed(self.seed)
SeedGlobal(g, sd) == SeedState(sd)

\* faulty variant: __post_init__ draws from the global generator as it finds it
PostInitRngUnseeded(g, sd) == g

\* the generator state __post_init__ draws from: the global one, just seeded
PostInitRng(g, sd) == SeedGlobal(g, sd)

InitMatrix(s, rows, off) ==
    [r \in 1..rows |-> [c \in 1..NFactors |->
        Uniform(RngAt(s, off + (r - 1) * NFactors + c), 0 - InitLimit, InitLimit)]]

InitBias(s, n, off) == [r \in 1..n |-> Normal(RngAt(s, off + r), SCALE \div 1000)]

OffQ  == NUsers * NFactors
OffBu == OffQ + NItems * NFactors
OffBi == OffBu + NUsers
Draws == OffBi + NItems

----------------------------------------------------------------------------
(* fit, step by step *)

MaxTrain == 2       \* longest training split
MaxEpochs == 2      \* largest n_epochs
MaxFitBatch == 2    \* largest batch_size in a fit
MaxFitSeed == 1     \* seeds 0 .. MaxFitSeed in a fit

\* the validation split of every fit
ValData == << << <<0, 1>>, 1, SCALE \div 2 >>, << <<1, 0>>, 0, SCALE >> >>

\* the current batch and example of the loops at mf.py 97-98
Features == batch_data.X[bidx]
Clicks   == batch_data.y[bidx]
Pscores  == batch_data.ps[bidx]
user_id  == Features[eidx][1]
item_id  == Features[eidx][2]

\* a point of the trajectory: the parameters and the loop position
Snapshot(Pn, Qn, bun, bin, bn, at) ==
    [P |-> Pn, Q |-> Qn, b_u |-> bun, b_i |-> bin, b |-> bn, at |-> at]

\* history: the running instance's trajectory is recorded, point by point
Record(pt) == traj' = [traj EXCEPT ![inst] = Append(@, pt)]

InitFit ==
    /\ seed \in 0..MaxFitSeed
    /\ n_epochs \in 1..MaxEpochs
    /\ batch_size \in 1..MaxFitBatch
    /\ lr = SCALE \div 10
    /\ reg = SCALE \div 100
    /\ rng \in {1, 4242}
    /\ \E n \in 1..MaxTrain : \E d \in Splits(n) :
          /\ train_X = ColX(d)
          /\ train_y = ColY(d)
          /\ train_pscores = ColPs(d)
    /\ val_X = ColX(ValData) /\ val_y = ColY(ValData) /\ val_pscores = ColPs(ValData)
    /\ IdleParam /\ IdleLoop
    /\ batch_data = <<>>
    /\ pc = "construct" /\ ret = <<>>
    /\ inst = 1 /\ traj = << <<>>, <<>> >> /\ ret1 = <<>>
    /\ preP = <<>> /\ preQ = <<>>
    /\ IdleMain

\* __post_init__ (mf.py 32-64)
PostInit ==
    /\ pc = "construct"
    /\ LET s == PostInitRng(rng, seed)
           Pn == InitMatrix(s, NUsers, 0)
           Qn == InitMatrix(s, NItems, OffQ)
           bun == InitBias(s, NUsers, OffBu)
           bin == InitBias(s, NItems, OffBi)
       IN  /\ P' = Pn /\ Q' = Qn /\ b_u' = bun /\ b_i' = bin
           /\ rng' = RngAt(s, Draws)
           /\ Record(Snapshot(Pn, Qn, bun, bin, b, <<"init">>))
    /\ pc' = "fit_call"
    /\ UNCHANGED <<hyperVars, dataVars, b, loopVars, ret, inst, ret1, preP, preQ, mainVars>>

\* fit, up to the epoch loop (mf.py 82-94)
FitStart ==
    /\ pc = "fit_call"
    /\ batch_data' = GetBatchData(train_X, train_y, train_pscores, seed, batch_size)
    /\ b' = MeanNum([k \in 1..Len(train_y) |-> train_y[k] * SCALE])
    /\ train_loss' = <<>> /\ val_loss' = <<>>
    /\ epoch' = 0
    /\ pc' = "epoch_head"
    /\ UNCHANGED <<hyperVars, rng, dataVars, P, Q, b_u, b_i, bidx, eidx, err,
                   batch_loss, ret, histVars, mainVars>>

\* for _ in range(n_epochs) (mf.py 95-96), and the return (mf.py 131)
EpochHead ==
    /\ pc = "epoch_head"
    /\ \/ /\ epoch < n_epochs
          /\ batch_loss' = <<>> /\ bidx' = 1 /\ eidx' = 1
          /\ pc' = "example_head"
          /\ UNCHANGED ret
       \/ /\ epoch >= n_epochs
          /\ ret' = <<train_loss, val_loss>>
          /\ pc' = "returned"
          /\ UNCHANGED <<batch_loss, bidx, eidx>>
    /\ UNCHANGED <<hyperVars, rng, dataVars, paramVars, batch_data, epoch, err,
                   train_loss, val_loss, histVars, mainVars>>

\* for feature, click, pscore in zip(...) (mf.py 98-102): the next example's
\* residual, or the end of the batch
ExampleHead ==
    /\ pc = "example_head"
    /\ \/ /\ eidx <= Len(Features)
          /\ err' = Div(Clicks[eidx] * SCALE, Pscores[eidx])
                       - PredictPair(P, Q, b_u, b_i, b, user_id, item_id)
          /\ preP' = SGDRead(P, user_id) /\ preQ' = SGDRead(Q, item_id)
          /\ pc' = "upd_P"
       \/ /\ eidx > Len(Features)
          /\ pc' = "batch_end"
          /\ UNCHANGED <<err, preP, preQ>>
    /\ UNCHANGED <<hyperVars, rng, dataVars, paramVars, batch_data, epoch, bidx, eidx,
                   batch_loss, train_loss, val_loss, ret, inst, traj, ret1, mainVars>>

\* self._update_P(...) (mf.py 105)
UpdateP ==
    /\ pc = "upd_P"
    /\ P' = update_P(P, Q, lr, reg, user_id, item_id, err)
    /\ Record(Snapshot(P', Q, b_u, b_i, b, <<"P", epoch, bidx, eidx, Features[eidx]>>))
    /\ pc' = "upd_Q"
    /\ UNCHANGED <<hyperVars, rng, dataVars, Q, b_u, b_i, b, loopVars, ret, inst, ret1,
                   preP, preQ, mainVars>>

\* self._update_Q(...) (mf.py 107)
UpdateQ ==
    /\ pc = "upd_Q"
    /\ Q' = update_Q(P, Q, lr, reg, user_id, item_id, err)
    /\ Record(Snapshot(P, Q', b_u, b_i, b, <<"Q", epoch, bidx, eidx, Features[eidx]>>))
    /\ pc' = "upd_b_u"
    /\ UNCHANGED <<hyperVars, rng, dataVars, P, b_u, b_i, b, loopVars, ret, inst, ret1,
                   preP, preQ, mainVars>>

\* self._update_b_u(...) (mf.py 109)
UpdateBu ==
    /\ pc = "upd_b_u"
    /\ b_u' = update_b_u(b_u, lr, reg, user_id, err)
    /\ Record(Snapshot(P, Q, b_u', b_i, b, <<"b_u", epoch, bidx, eidx, Features[eidx]>>))
    /\ pc' = "upd_b_i"
    /\ UNCHANGED <<hyperVars, rng, dataVars, P, Q, b_i, b, loopVars, ret, inst, ret1,
                   preP, preQ, mainVars>>

\* self._update_b_i(...) (mf.py 111), then on to the next example
UpdateBi ==
    /\ pc = "upd_b_i"
    /\ b_i' = update_b_i(b_i, lr, reg, item_id, err)
    /\ Record(Snapshot(P, Q, b_u, b_i', b, <<"b_i", epoch, bidx, eidx, Features[eidx]>>))
    /\ eidx' = eidx + 1
    /\ pc' = "example_head"
    /\ UNCHANGED <<hyperVars, rng, dataVars, P, Q, b_u, b, batch_data, epoch, bidx, err,
                   batch_loss, train_loss, val_loss, ret, inst, ret1, preP, preQ,
                   mainVars>>

\* the batch's loss (mf.py 113-119), then on to the next batch
BatchEnd ==
    /\ pc = "batch_end"
    /\ batch_loss' = Append(batch_loss,
            CrossEntropyLoss(Clicks, Predict(P, Q, b_u, b_i, b, Features), Pscores))
    /\ \/ /\ bidx < Len(batch_data.X)
          /\ bidx' = bidx + 1 /\ eidx' = 1
          /\ pc' = "example_head"
       \/ /\ bidx >= Len(batch_data.X)
          /\ pc' = "epoch_end"
          /\ UNCHANGED <<bidx, eidx>>
    /\ UNCHANGED <<hyperVars, rng, dataVars, paramVars, batch_data, epoch, err,
                   train_loss, val_loss, ret, histVars, mainVars>>

\* faulty variant: the entry is the list of the epoch's batch losses
EpochEntryBatchList(bl) == [kind |-> "list", items |-> bl]

\* the entry fit appends to train_loss for an epoch (mf.py 121)
EpochEntry(bl) == [kind |-> "pair", mean |-> LossMean(bl), std |-> LossStd(bl)]

\* the end of an epoch (mf.py 121-129)
EpochEnd ==
    /\ pc = "epoch_end"
    /\ train_loss' = Append(train_loss, EpochEntry(batch_loss))
    /\ val_loss' = Append(val_loss,
            CrossEntropyLoss(val_y, Predict(P, Q, b_u, b_i, b, val_X), val_pscores))
    /\ epoch' = epoch + 1
    /\ pc' = "epoch_head"
    /\ UNCHANGED <<hyperVars, rng, dataVars, paramVars, batch_data, bidx, eidx, err,
                   batch_loss, ret, histVars, mainVars>>

\* a second instance is constructed with the same seed and hyperparameters,
\* to be fitted on the same inputs; numpy's global generator has moved on
\* meanwhile, or has been used by other code
NewInstance ==
    /\ pc = "returned" /\ inst = 1
    /\ inst' = 2 /\ ret1' = ret
    /\ rng' \in {rng, RngNext(rng)}
    /\ P' = <<>> /\ Q' = <<>> /\ b_u' = <<>> /\ b_i' = <<>> /\ b' = 0
    /\ epoch' = 0 /\ bidx' = 0 /\ eidx' = 0 /\ err' = 0
    /\ batch_loss' = <<>> /\ train_loss' = <<>> /\ val_loss' = <<>>
    /\ batch_data' = <<>> /\ ret' = <<>>
    /\ preP' = <<>> /\ preQ' = <<>>
    /\ pc' = "construct"
    /\ UNCHANGED <<hyperVars, dataVars, traj, mainVars>>

NextFit ==
    \/ PostInit \/ FitStart \/ EpochHead \/ ExampleHead
    \/ UpdateP \/ UpdateQ \/ UpdateBu \/ UpdateBi
    \/ BatchEnd \/ EpochEnd \/ NewInstance

SpecFit == InitFit /\ [][NextFit]_vars


----------------------------------------------------------------------------
(* The four updates of one example, from a given parameter state and a     *)
(* given residual: the update methods called directly, as a unit test does *)

ConstRow(v) == [k \in 1..NFactors |-> v]

InitUpdate ==
    /\ seed = 0 /\ n_epochs = 1 /\ batch_size = 1
    /\ lr \in {SCALE \div 10, SCALE \div 100}
    /\ reg \in {SCALE \div 100, 0}
    /\ err \in {SCALE \div 5, 0 - SCALE \div 5, SCALE \div 2, 0}
    /\ \E p \in {0, SCALE, 0 - SCALE}, q \in {0, SCALE, 2 * SCALE} :
          /\ P = [u \in 1..NUsers |-> IF u = 1 THEN ConstRow(p) ELSE ConstRow(SCALE \div 2)]
          /\ Q = [i \in 1..NItems |-> IF i = 1 THEN ConstRow(q) ELSE ConstRow(0 - SCALE)]
          /\ preP = ConstRow(p) /\ preQ = ConstRow(q)
    /\ b_u = [u \in 1..NUsers |-> 0] /\ b_i = [i \in 1..NItems |-> 0] /\ b = SCALE \div 2
    /\ train_X = << <<0, 0>> >> /\ train_y = <<1>> /\ train_pscores = <<SCALE>>
    /\ batch_data = [X |-> <<train_X>>, y |-> <<train_y>>, ps |-> <<train_pscores>>]
    /\ IdleVal
    /\ epoch = 0 /\ bidx = 1 /\ eidx = 1
    /\ batch_loss = <<>> /\ train_loss = <<>> /\ val_loss = <<>>
    /\ pc = "upd_P" /\ ret = <<>> /\ rng = 0
    /\ inst = 1 /\ traj = << <<>>, <<>> >> /\ ret1 = <<>>
    /\ IdleMain

NextUpdate == UpdateP \/ UpdateQ \/ UpdateBu \/ UpdateBi

SpecUpdate == InitUpdate /\ [][NextUpdate]_vars

----------------------------------------------------------------------------
(* main(): the loop over models and estimators (main.py 40-120) *)

ModelNames == <<"FM", "PMF", "Random">>
Estimators == <<"Ideal", "IPS", "Naive">>

\* the (model_name, estimator) pair of the loops' k-th iteration, k = 1 .. 9
PairAt(k) == << ModelNames[((k - 1) \div 3) + 1], Estimators[((k - 1) % 3) + 1] >>
NumPairs == Len(ModelNames) * Len(Estimators)

model_name == PairAt(run)[1]
estimator  == PairAt(run)[2]
base_name  == PairAt(run)

\* faulty variant: every Random run is skipped
SkipRunAnyRandom(m, e) == m = "Random"

\* if model_name == "Random" and estimator != "Ideal": continue
SkipRun(m, e) == m = "Random" /\ e # "Ideal"

\* if model_name != "Random": load data and parameters
LoadsData(m) == m # "Random"

\* if estimator == "IPS": clip
ClipsPscores(e) == e = "IPS"

\* faulty variant: np.minimum(scores, clipping)
ClipPscoresMin(scores, c) == [k \in DOMAIN scores |-> IF scores[k] <= c THEN scores[k] ELSE c]

\* np.maximum(scores, clipping)
ClipPscores(scores, c) == [k \in DOMAIN scores |-> IF scores[k] >= c THEN scores[k] ELSE c]

\* what the loader and the parameter files may hold
MaxSplit == 2     \* longest train propensity array the loader returns
PsValues   == {SCALE \div 10, SCALE \div 2, SCALE}
ClipValues == {SCALE \div 5, (SCALE * 3) \div 4}
TrainPs    == UNION {[1..n -> PsValues] : n \in 1..MaxSplit}
ValPs      == [1..1 -> PsValues]

\* the frequency buckets of dataloader.test_user2data_indices, the metrics
Frequencies  == {"all", "rare"}
used_metrics == {"DCG", "Recall", "Precision"}

InitMain ==
    /\ mpc = "loop" /\ run = 0
    /\ train = <<>> /\ val = <<>> /\ test = <<>> /\ model_params = <<>>
    /\ model = "none"
    /\ logloss_df = {} /\ metric_df = {}
    /\ loaded = <<>> /\ fit_call = <<>> /\ eval_call = <<>> /\ runs_done = <<>>
    /\ seed = 0 /\ batch_size = 0 /\ IdleHyper /\ rng = 0
    /\ train_X = <<>> /\ train_y = <<>> /\ train_pscores = <<>> /\ IdleVal
    /\ IdleParam /\ IdleLoop /\ batch_data = <<>> /\ pc = "idle" /\ ret = <<>>
    /\ IdleHist

\* the loop heads (main.py 40-44), and the end of main (main.py 122-123)
LoopNext ==
    /\ mpc = "loop"
    /\ \/ /\ run < NumPairs
          /\ run' = run + 1
          /\ mpc' = IF SkipRun(PairAt(run + 1)[1], PairAt(run + 1)[2])
                    THEN "loop" ELSE "load"
          \* history: nothing loaded, fitted or evaluated yet in this iteration
          /\ loaded' = <<>> /\ fit_call' = <<>> /\ eval_call' = <<>>
       \/ /\ run >= NumPairs
          /\ mpc' = "done"
          /\ UNCHANGED <<run, loaded, fit_call, eval_call>>
    /\ UNCHANGED <<train, val, test, model_params, model, logloss_df, metric_df,
                   runs_done, mfVars>>

\* dataloader.load and the parameter file (main.py 46-55)
Load ==
    /\ mpc = "load"
    /\ \/ /\ LoadsData(model_name)
          /\ \E tp \in TrainPs, vp \in ValPs, c \in ClipValues :
                /\ train' = [src |-> base_name, ps |-> tp]
                /\ val' = [src |-> base_name, ps |-> vp]
                /\ loaded' = [run |-> run, train |-> tp, val |-> vp]
                /\ model_params' = [src |-> base_name, clipping |-> c]
          /\ test' = [src |-> base_name]
       \/ /\ ~LoadsData(model_name)
          /\ UNCHANGED <<train, val, test, model_params, loaded>>
    /\ mpc' = "clip"
    /\ UNCHANGED <<run, model, logloss_df, metric_df, fit_call, eval_call, runs_done,
                   mfVars>>

\* the pscore clipping (main.py 57-60)
Clip ==
    /\ mpc = "clip"
    /\ \/ /\ ClipsPscores(estimator)
          /\ train' = [train EXCEPT !.ps = ClipPscores(@, model_params.clipping)]
          /\ val' = [val EXCEPT !.ps = ClipPscores(@, model_params.clipping)]
       \/ /\ ~ClipsPscores(estimator)
          /\ UNCHANGED <<train, val>>
    /\ mpc' = "model"
    /\ UNCHANGED <<run, test, model_params, model, logloss_df, metric_df, loaded,
                   fit_call, eval_call, runs_done, mfVars>>

\* the model is built and fitted and its log loss is written (main.py 62-104)
FitModel ==
    /\ mpc = "model"
    /\ \/ /\ model_name \in {"FM", "PMF"}
          /\ model' = model_name
          /\ fit_call' = [run |-> run, model |-> model_name, train |-> train, val |-> val]
          /\ logloss_df' = logloss_df \cup {base_name}
       \/ /\ model_name = "Random"
          /\ model' = "Random"
          /\ UNCHANGED <<fit_call, logloss_df>>
    /\ mpc' = "eval"
    /\ UNCHANGED <<run, train, val, test, model_params, metric_df, loaded, eval_call,
                   runs_done, mfVars>>

\* the ranking evaluation of every frequency bucket (main.py 106-120)
Evaluate ==
    /\ mpc = "eval"
    /\ eval_call' = [run |-> run, via |-> "Evaluator.evaluate", model |-> model,
                     test |-> test]
    /\ metric_df' = metric_df \cup
            {<<base_name, f, m>> : f \in Frequencies, m \in used_metrics}
    /\ runs_done' = Append(runs_done, base_name)
    /\ mpc' = "loop"
    /\ UNCHANGED <<run, train, val, test, model_params, model, logloss_df, loaded,
                   fit_call, mfVars>>

NextMain == LoopNext \/ Load \/ Clip \/ FitModel \/ Evaluate

SpecMain == InitMain /\ [][NextMain]_vars


\* _get_batch_data on its own, and inside fit
SpecMF == (InitBatch \/ InitFit) /\ [][NextBatch \/ NextFit]_vars

----------------------------------------------------------------------------
(* Properties *)

RECURSIVE Flatten(_)
Flatten(ss) == IF ss = <<>> THEN <<>> ELSE Head(ss) \o Flatten(Tail(ss))

SeqToBag(q) == [x \in Range(q) |-> Cardinality({k \in DOMAIN q : q[k] = x})]

Zip3(x, y, z) == [k \in 1..Len(x) |-> <<x[k], y[k], z[k]>>]

BatchLens == [j \in DOMAIN batch_data.X |-> Len(batch_data.X[j])]

\* batch_data holds the result of _get_batch_data
HasBatches == pc \notin {"gbd_call", "construct", "fit_call", "idle"}

\* fit is between its first statement and its return
InFitLoop == pc \in {"epoch_head", "example_head", "upd_P", "upd_Q", "upd_b_u",
                     "upd_b_i", "batch_end", "epoch_end"}

\* C1: _get_batch_data returns Len // batch_size + 1 batches of each of the
\* three arrays; the batches of an array, concatenated in order, hold the
\* input's rows, each as often as the input does; and the three arrays are
\* cut and permuted alike: matching batches have matching lengths, and the
\* rows (feature, label, propensity) read across them are the input's rows.
C1_BatchPartition ==
    pc = "gbd_done" =>
        LET k == Len(train_X) \div batch_size + 1
        IN  /\ Len(batch_data.X) = k /\ Len(batch_data.y) = k /\ Len(batch_data.ps) = k
            /\ \A j \in 1..k :
                  /\ Len(batch_data.y[j]) = Len(batch_data.X[j])
                  /\ Len(batch_data.ps[j]) = Len(batch_data.X[j])
            /\ SeqToBag(Flatten(batch_data.X)) = SeqToBag(train_X)
            /\ SeqToBag(Flatten(batch_data.y)) = SeqToBag(train_y)
            /\ SeqToBag(Flatten(batch_data.ps)) = SeqToBag(train_pscores)
            /\ SeqToBag(Zip3(Flatten(batch_data.X), Flatten(batch_data.y),
                             Flatten(batch_data.ps)))
                 = SeqToBag(Zip3(train_X, train_y, train_pscores))

\* four distinct rows, split in three batches, in another order than given
C1_Witness ==
    /\ pc = "gbd_done"
    /\ Len(train_X) = 4 /\ Cardinality(Range(train_X)) = 4 /\ batch_size = 2
    /\ Flatten(batch_data.X) # train_X

\* C7, as stated: ceil(n / batch_size) batches, and every batch but the last
\* has the same size
C7_CeilBatchesLastAbsorbs ==
    (pc = "gbd_done" /\ Len(train_X) >= 1) =>
        /\ Len(batch_data.X) = (Len(train_X) + batch_size - 1) \div batch_size
        /\ \A j, k \in 1..(Len(batch_data.X) - 1) : BatchLens[j] = BatchLens[k]

\* C7, amended: n // batch_size + 1 contiguous batches of the shuffled
\* array, in order; with k batches, the first n % k hold n // k + 1 rows and
\* the others n // k rows, so the longer batches come first.
C7_FloorPlusOneBatchesFirstAbsorb ==
    (pc = "gbd_done" /\ Len(train_X) >= 1) =>
        LET n == Len(train_X)
            k == Len(batch_data.X)
        IN  /\ k = n \div batch_size + 1
            /\ Flatten(batch_data.X) = Shuffle(train_X, seed)
            /\ \A j \in 1..k :
                  BatchLens[j] = n \div k + (IF j <= n % k THEN 1 ELSE 0)

\* four rows in three batches of sizes 2, 1, 1
C7_Witness ==
    /\ pc = "gbd_done" /\ Len(train_X) = 4 /\ batch_size = 2
    /\ BatchLens = <<2, 1, 1>>

\* C10: with at least one row and batch_size >= 2 no batch is empty and
\* batch sizes differ by at most one, so every batch loss fit records is the
\* loss of at least one example (it is a number); with batch_size = 1, or
\* with no rows, there is an empty batch (and in fit its loss, the mean of
\* nothing, is recorded).
C10_BatchSizes ==
    /\ HasBatches =>
          /\ (Len(train_X) >= 1 /\ batch_size >= 2) =>
                /\ \A j \in DOMAIN BatchLens : BatchLens[j] >= 1
                /\ \A j, k \in DOMAIN BatchLens : BatchLens[j] - BatchLens[k] <= 1
          /\ (batch_size = 1 \/ Len(train_X) = 0) =>
                \E j \in DOMAIN BatchLens : BatchLens[j] = 0
    /\ InFitLoop =>
          /\ batch_size >= 2 => \A k \in DOMAIN batch_loss : ~batch_loss[k].nan
          /\ (pc = "batch_end" /\ batch_size >= 2) => Len(Features) >= 1
          /\ (pc = "epoch_end" /\ batch_size = 1) =>
                \E k \in DOMAIN batch_loss : batch_loss[k].nan

\* a fit with batch_size 2 has recorded the loss of a batch of one example
C10_Witness ==
    /\ pc = "epoch_end" /\ batch_size = 2 /\ Len(train_X) = 2
    /\ BatchLens = <<1, 1>> /\ Len(batch_loss) = 2

\* C2, as stated: at the return the train trace holds, per epoch, a list
\* with one (mean, std) pair per batch
C2_TrainTraceListsPerBatch ==
    pc = "returned" =>
        /\ Len(ret[1]) = n_epochs /\ Len(ret[2]) = n_epochs
        /\ \A e \in 1..Len(ret[1]) :
              /\ ret[1][e].kind = "list"
              /\ Len(ret[1][e].items) = Len(batch_data.X)

C2_TraceShape ==
    /\ InFitLoop =>
          /\ Len(train_loss) = epoch /\ Len(val_loss) = epoch /\ epoch <= n_epochs
          /\ \A e \in 1..Len(train_loss) : train_loss[e].kind = "pair"
          /\ pc = "epoch_end" => Len(batch_loss) = Len(batch_data.X)
    /\ pc = "returned" =>
          /\ ret = <<train_loss, val_loss>>
          /\ epoch = n_epochs
          /\ Len(ret[1]) = n_epochs /\ Len(ret[2]) = n_epochs
          /\ \A e \in 1..n_epochs :
                /\ ret[1][e].kind = "pair"
                /\ ret[1][e].mean.nan \in BOOLEAN /\ ret[1][e].std.nan \in BOOLEAN
                /\ ret[2][e].nan \in BOOLEAN

C2_TraceGrowth ==
    (inst' = inst /\ (val_loss' # val_loss \/ train_loss' # train_loss)) =>
        /\ pc = "epoch_end"
        /\ bidx = Len(batch_data.X)
        /\ Len(batch_loss) = Len(batch_data.X)
        /\ Len(val_loss') = Len(val_loss) + 1
        /\ SubSeq(val_loss', 1, Len(val_loss)) = val_loss
        /\ train_loss' = Append(train_loss,
                [kind |-> "pair", mean |-> LossMean(batch_loss),
                 std |-> LossStd(batch_loss)])

\* C2, amended: fit runs exactly n_epochs epochs and returns the pair
\* (train_loss, val_loss); each trace has one entry per epoch, appended
\* after the epoch's last batch; a train entry is a single (mean, std) pair,
\* the mean and standard deviation of that epoch's batch losses, one scalar
\* loss per batch; a val entry is one scalar.
C2_FitReturnsEpochPairs == []C2_TraceShape /\ [][C2_TraceGrowth]_vars

\* a fit of two epochs over three batches has returned
C2_Witness ==
    /\ pc = "returned" /\ n_epochs = 2 /\ Len(batch_data.X) = 3
    /\ Len(ret[1]) = 2 /\ ret[1][1].kind = "pair"

\* the scenario of C4, as the update of P[user] starts
UpdateScenario ==
    /\ preP = ConstRow(SCALE) /\ preQ = ConstRow(2 * SCALE)
    /\ err = SCALE \div 5 /\ reg = SCALE \div 100 /\ lr = SCALE \div 10

\* C4, as stated: the update leaves P[user] = [1.0396, 1.0396]
C4_UpdateGives10396 ==
    (UpdateScenario /\ pc = "upd_Q") =>
        \A k \in 1..NFactors : P[1][k] = (10396 * SCALE) \div 10000

\* C4, amended: with err = 0.2, reg = 0.01, P[user] = [1, 1],
\* Q[item] = [2, 2] and lr = 0.1, one _update_P step leaves every entry of
\* P[user] at 1 - 0.1 * (-0.2 * 2 + 0.01 * 1) = 1.039.
C4_UpdateGives1039 ==
    (UpdateScenario /\ pc = "upd_Q") =>
        \A k \in 1..NFactors : P[1][k] = (1039 * SCALE) \div 1000

\* the scenario's P update has been applied
C4_Witness == UpdateScenario /\ pc = "upd_Q" /\ P[1] # preP

\* C5: the second instance, constructed with the same seed and
\* hyperparameters and fitted on the same inputs, goes through the first
\* one's trajectory point by point: the same initial parameters, then after
\* every update the same parameters at the same epoch, batch, position and
\* example; and it returns the same traces.  (Every point is compared as it
\* is recorded, so the whole trajectories agree.)
C5_Determinism ==
    inst = 2 =>
        /\ Len(traj[2]) <= Len(traj[1])
        /\ Len(traj[2]) >= 1 => traj[2][Len(traj[2])] = traj[1][Len(traj[2])]
        /\ pc = "returned" => (ret = ret1 /\ Len(traj[2]) = Len(traj[1]))

\* the second instance has returned from a fit of two epochs of two
\* examples each, started with another state of the global generator
C5_Witness ==
    /\ inst = 2 /\ pc = "returned" /\ n_epochs = 2 /\ Len(train_X) = 2
    /\ Len(traj[2]) = 17 /\ traj[2] = traj[1] /\ ret = ret1

\* C6, as stated: the gradients of an example are computed from the values
\* P[user] and Q[item] had when the example started; so after _update_Q the
\* row Q[item] is preQ - lr * (-err * preP + reg * preQ).
C6_ReadBeforeWrite ==
    /\ pc = "upd_Q" =>
          SGDRead(P, user_id) =
              VecAdd(preP, VecScale(0 - lr,
                  VecAdd(VecScale(0 - err, preQ), VecScale(reg, preP))))
    /\ pc = "upd_b_u" =>
          SGDRead(Q, item_id) =
              VecAdd(preQ, VecScale(0 - lr,
                  VecAdd(VecScale(0 - err, preP), VecScale(reg, preQ))))

C8_BiasIsMeanLabel ==
    (InFitLoop \/ pc = "returned") =>
        b = SumSeq([k \in 1..Len(train_y) |-> train_y[k] * SCALE]) \div Len(train_y)

C8_StepFrame ==
    pc \in {"upd_P", "upd_Q", "upd_b_u", "upd_b_i"} =>
        /\ \A u \in 0..(NUsers - 1) :
              u # user_id => (/\ SGDRead(P', u) = SGDRead(P, u)
                              /\ SGDRead(b_u', u) = SGDRead(b_u, u))
        /\ \A i \in 0..(NItems - 1) :
              i # item_id => (/\ SGDRead(Q', i) = SGDRead(Q, i)
                              /\ SGDRead(b_i', i) = SGDRead(b_i, i))
        /\ b' = b
        /\ pc = "upd_P" => (Q' = Q /\ b_u' = b_u /\ b_i' = b_i)
        /\ pc = "upd_Q" => (P' = P /\ b_u' = b_u /\ b_i' = b_i)
        /\ pc = "upd_b_u" => (P' = P /\ Q' = Q /\ b_i' = b_i)
        /\ pc = "upd_b_i" => (P' = P /\ Q' = Q /\ b_u' = b_u)

\* C8: each update of an example (user u, item i) leaves every row of P and
\* entry of b_u other than u's, and every row of Q and entry of b_i other
\* than i's, as they were, and leaves b as it was; b is the mean training
\* label from the start of fit until fit has returned.
C8_TrainingStepFrame == []C8_BiasIsMeanLabel /\ [][C8_StepFrame]_vars

\* an example of user 0 and item 1 has been processed and has changed
\* P[0] and Q[1]
C8_Witness ==
    /\ pc = "upd_b_i" /\ user_id = 0 /\ item_id = 1
    /\ SGDRead(P, 0) # preP /\ SGDRead(Q, 1) # preQ
    /\ b = SCALE \div 2 /\ Len(train_y) = 2

\* C3: in every IPS run (FM or PMF) each propensity score of the train and
\* validation split passed to fit is max(loaded score, clipping) for the
\* clipping value loaded for that run, so it is >= clipping, and clipping
\* the passed arrays again changes nothing; in every Ideal and Naive run the
\* arrays passed to fit are the loaded ones.
C3_IpsClipping ==
    (mpc = "eval" /\ model # "Random") =>
        /\ fit_call # <<>> /\ loaded # <<>>
        /\ fit_call.run = run /\ loaded.run = run
        /\ model_params.src = base_name
        /\ Len(fit_call.train.ps) = Len(loaded.train)
        /\ Len(fit_call.val.ps) = Len(loaded.val)
        /\ IF estimator = "IPS"
           THEN /\ \A k \in DOMAIN loaded.train :
                      /\ fit_call.train.ps[k] =
                            (IF loaded.train[k] >= model_params.clipping
                             THEN loaded.train[k] ELSE model_params.clipping)
                      /\ fit_call.train.ps[k] >= model_params.clipping
                /\ \A k \in DOMAIN loaded.val :
                      /\ fit_call.val.ps[k] =
                            (IF loaded.val[k] >= model_params.clipping
                             THEN loaded.val[k] ELSE model_params.clipping)
                      /\ fit_call.val.ps[k] >= model_params.clipping
                /\ ClipPscores(fit_call.train.ps, model_params.clipping) = fit_call.train.ps
                /\ ClipPscores(fit_call.val.ps, model_params.clipping) = fit_call.val.ps
           ELSE /\ fit_call.train.ps = loaded.train
                /\ fit_call.val.ps = loaded.val

\* a PMF IPS run whose loader returned one score below the clipping value
\* and one above it
C3_Witness ==
    /\ mpc = "eval" /\ base_name = <<"PMF", "IPS">>
    /\ loaded.train[1] < model_params.clipping
    /\ fit_call.train.ps[1] = model_params.clipping
    /\ Len(loaded.train) = 2 /\ loaded.train[2] > model_params.clipping

RunOrder ==
    << <<"FM", "Ideal">>, <<"FM", "IPS">>, <<"FM", "Naive">>,
       <<"PMF", "Ideal">>, <<"PMF", "IPS">>, <<"PMF", "Naive">>,
       <<"Random", "Ideal">> >>

C9_RunsInOrder ==
    /\ Len(runs_done) <= Len(RunOrder)
    /\ runs_done = SubSeq(RunOrder, 1, Len(runs_done))
    /\ mpc = "done" => runs_done = RunOrder
    /\ <<"Random", "Ideal">> \notin logloss_df
    /\ (run >= 1 /\ run <= NumPairs /\ model_name = "Random") =>
          /\ loaded = <<>> /\ fit_call = <<>>
          /\ test = [src |-> <<"PMF", "Naive">>]
          /\ eval_call # <<>> =>
                /\ estimator = "Ideal"
                /\ eval_call.via = "Evaluator.evaluate"
                /\ eval_call.model = "Random"
                /\ eval_call.test = [src |-> <<"PMF", "Naive">>]
    /\ (run >= 1 /\ run <= NumPairs /\ model_name # "Random" /\ eval_call # <<>>) =>
          /\ eval_call.via = "Evaluator.evaluate"
          /\ eval_call.test = [src |-> base_name]

C9_RandomTouchesNothing ==
    (run' >= 1 /\ PairAt(run')[1] = "Random") =>
        /\ train' = train /\ val' = val /\ test' = test
        /\ model_params' = model_params
        /\ logloss_df' = logloss_df

\* C9: the runs are FM (Ideal, IPS, Naive), PMF (Ideal, IPS, Naive), Random
\* (Ideal), in this order, and no other; while the loop is at Random nothing
\* is loaded, clipped or fitted and no logloss column is written; Random is
\* evaluated by the same Evaluator.evaluate call as the trained models, on
\* the test split the PMF Naive run loaded.
C9_RunOrderAndRandom == []C9_RunsInOrder /\ [][C9_RandomTouchesNothing]_vars

\* Random has been evaluated, after the six trained runs
C9_Witness ==
    /\ mpc = "loop" /\ run = 7 /\ base_name = <<"Random", "Ideal">>
    /\ Len(runs_done) = 7 /\ eval_call # <<>> /\ eval_call.model = "Random"
    /\ Cardinality(logloss_df) = 6

=============================================================================
